---- MODULE Spec2Model ----
(***************************************************************************)
(* A model of the traefik ModSecurity plugin: the per-request fork/join of *)
(* the body guard (HandleRequestBodyMaxSize) and the verdict pipeline      *)
(* (HandleCacheAndForwardRequest), the verdict cache and the key derived   *)
(* from the request.                                                       *)
(*                                                                         *)
(* One request is in flight at a time; its two goroutines interleave at    *)
(* every read of the shared request body.  Time is counted in minutes.     *)
(***************************************************************************)
EXTENDS Integers, Sequences, FiniteSets, TLC

\* ------------------------------------------------------------------ bounds
\* the configured maxBodySize of the handlers under test
MaxBody == 1
\* how many requests one behaviour serves
MaxRequests == 2
\* the clock stops here
MaxClock == 6
\* how many requests one behaviour serves while time passes
MaxTimedRequests == 3
\* how many requests the concurrent workers serve in one behaviour
MaxPoolRequests == 4
\* how many response objects cacheResponsePool ever allocates
MaxObjects == 2

\* ------------------------------------------------------- program constants
DefaultExpiration == 5
StatusRequestEntityTooLarge == 413
StatusBadGateway == 502
RejectFrom == 400
CodeModulus == 1000
DefaultMaxBodySize == 10485760

\* ------------------------------------------------------------ small helpers
Nil == "nil"

\* the values of header `name` in the header map h (a set of <<name, values>>)
HeaderValues(h, name) ==
  IF \E e \in h : e[1] = name
  THEN (CHOOSE e \in h : e[1] = name)[2]
  ELSE <<>>

RECURSIVE ConcatAll(_)
\* the bytes of a sequence of strings written one after the other
ConcatAll(ss) == IF ss = <<>> THEN "" ELSE Head(ss) \o ConcatAll(Tail(ss))

\* all the orders in which a finite set can be enumerated
Orderings(S) ==
  { f \in [1..Cardinality(S) -> S] : \A i, j \in 1..Cardinality(S) : i # j => f[i] # f[j] }

\* net/http's StatusText, on the codes the model uses ("" for an unknown code)
StatusText(code) ==
  CASE code = 200 -> "OK"
    [] code = 400 -> "Bad Request"
    [] code = 403 -> "Forbidden"
    [] code = 413 -> "Request Entity Too Large"
    [] code = 502 -> "Bad Gateway"
    [] OTHER -> ""

\* ------------------------------------------------------ Attribute Normalizer
\* the built-in tracking parameters removeTrackingParams deletes
trackingParams ==
  { "fbclid", "gclid", "gclsrc", "dclid", "utm_content", "utm_term", "utm_campaign",
    "utm_medium", "utm_source", "utm_id", "_ga", "mc_cid", "mc_eid", "_bta_tid",
    "_bta_c", "trk_contact", "trk_msg", "trk_module", "trk_sid", "gdfms", "gdftrk",
    "gdffi", "_ke", "redirect_log_mongo_id", "redirect_mongo_id", "sb_referer_host",
    "mkwid", "pcrid", "ef_id", "s_kwcid", "msclkid", "dm_i", "epik", "pk_campaign",
    "pk_kwd", "pk_keyword", "piwik_campaign", "piwik_kwd", "piwik_keyword",
    "mtm_campaign", "mtm_keyword", "mtm_source", "mtm_medium", "mtm_content",
    "mtm_cid", "mtm_group", "mtm_placement", "matomo_campaign", "matomo_keyword",
    "matomo_source", "matomo_medium", "matomo_content", "matomo_cid", "matomo_group",
    "matomo_placement", "hsa_cam", "hsa_grp", "hsa_mt", "hsa_src", "hsa_ad",
    "hsa_acc", "hsa_net", "hsa_kw", "hsa_tgt", "hsa_ver" }

\* A request URI is its path, its query parameters in the order the client
\* wrote them and its fragment: [path |-> "/a", query |-> << <<"id", "1">> >>,
\* frag |-> ""].
\* The parameter names the model's URIs use, in byte order (url.Values.Encode
\* sorts the keys).
ParamNames == << "fbclid", "id", "q", "utm_source" >>

RECURSIVE JoinWith(_, _)
\* strings.Join(ss, sep)
JoinWith(ss, sep) ==
  IF ss = <<>> THEN ""
  ELSE IF Len(ss) = 1 THEN ss[1]
  ELSE ss[1] \o sep \o JoinWith(Tail(ss), sep)

RECURSIVE FilterQuery(_, _)
\* the parameters of q whose name is not in `drop`, in their order
FilterQuery(q, drop) ==
  IF q = <<>> THEN <<>>
  ELSE IF Head(q)[1] \in drop THEN FilterQuery(Tail(q), drop)
  ELSE <<Head(q)>> \o FilterQuery(Tail(q), drop)

RECURSIVE ValuesOf(_, _)
\* the "k=v" pairs of parameter k in q, in their order
ValuesOf(q, k) ==
  IF q = <<>> THEN <<>>
  ELSE IF Head(q)[1] = k THEN <<k \o "=" \o Head(q)[2]>> \o ValuesOf(Tail(q), k)
  ELSE ValuesOf(Tail(q), k)

RECURSIVE EncodeFrom(_, _)
\* url.Values.Encode: the keys in sorted order, each with its values in order
EncodeFrom(q, i) ==
  IF i > Len(ParamNames) THEN <<>>
  ELSE ValuesOf(q, ParamNames[i]) \o EncodeFrom(q, i + 1)

Encode(q) == JoinWith(EncodeFrom(q, 1), "&")

\* "#" and the fragment, when there is one
Fragment(u) == IF u.frag = "" THEN "" ELSE "#" \o u.frag

\* the raw text of a request URI, as the client sent it
RequestURI(u) ==
  ( IF u.query = <<>> THEN u.path
    ELSE u.path \o "?" \o JoinWith([i \in 1..Len(u.query) |-> u.query[i][1] \o "=" \o u.query[i][2]], "&") )
  \o Fragment(u)

\* a fragment url.Parse rejects (an invalid escape); the server, which parses
\* the request line with url.ParseRequestURI, takes it as part of the query
BadFragment == "%zz"

\* url.Parse succeeds
Parses(u) == u.frag # BadFragment

\* removeTrackingParams: parse (the input comes back as it is when that fails),
\* delete the tracking parameters, re-encode
removeTrackingParams(u) ==
  LET query == FilterQuery(u.query, trackingParams)
      RawQuery == Encode(query)
  IN IF ~Parses(u) THEN RequestURI(u)
     ELSE ( IF RawQuery = "" THEN u.path ELSE u.path \o "?" \o RawQuery ) \o Fragment(u)

\* ------------------------------------------------------------ configuration
\* A *bool of the Go code is a sequence: <<>> is nil, <<b>> points to b.
boolPtr(b) == <<b>>

IsSet(p) == p # <<>> /\ p[1]

\* CreateConfig's CacheConditions
DefaultConditions == [Methods |-> <<"GET">>, NoBody |-> boolPtr(TRUE)]

\* CreateConfig's CacheKey
DefaultKeyOptions ==
  [ IncludeMethod |-> boolPtr(TRUE),
    IncludeRequestURI |-> boolPtr(TRUE),
    IncludeHeaders |-> boolPtr(FALSE),
    MatchAllHeaders |-> boolPtr(FALSE),
    Headers |-> <<"Authorization", "User-Agent", "Cache-Control">>,
    IncludeHost |-> boolPtr(TRUE),
    IncludeRemoteAddress |-> boolPtr(FALSE) ]

\* CreateConfig: the Config it returns sets the timeout, the body limit, the
\* cache switch and the two structs; the cacheConditions*/cacheKey* options are
\* left nil
CreateConfig ==
  [ TimeoutMillis |-> 2000,
    ModSecurityUrl |-> "",
    MaxBodySize |-> DefaultMaxBodySize,
    CacheEnabled |-> boolPtr(TRUE),
    CacheConditionsMethods |-> <<>>,
    CacheConditionsNoBody |-> <<>>,
    CacheKeyIncludeMethod |-> <<>>,
    CacheKeyIncludeRequestURI |-> <<>>,
    CacheKeyIncludeHeaders |-> <<>>,
    CacheKeyHeaders |-> <<>>,
    CacheKeyMatchAllHeaders |-> <<>>,
    CacheKeyIncludeHost |-> <<>>,
    CacheKeyIncludeRemoteAddress |-> <<>>,
    CacheConditions |-> DefaultConditions,
    CacheKey |-> DefaultKeyOptions ]

\* New that does not read config.CacheEnabled: the cache is always on
NewAlwaysCaching(config) ==
  IF Len(config.ModSecurityUrl) = 0 THEN Nil
  ELSE [ modSecurityUrl |-> config.ModSecurityUrl,
         maxBodySize |-> config.MaxBodySize,
         cacheEnabled |-> TRUE,
         cacheConditions |-> config.CacheConditions,
         cacheKey |-> config.CacheKey ]

\* New: the Modsecurity handler built from a Config (Nil: New returns an error)
New(config) ==
  IF Len(config.ModSecurityUrl) = 0 THEN Nil
  ELSE [ modSecurityUrl |-> config.ModSecurityUrl,
         maxBodySize |-> config.MaxBodySize,
         cacheEnabled |-> IsSet(config.CacheEnabled),
         cacheConditions |-> config.CacheConditions,
         cacheKey |-> config.CacheKey ]

\* the configuration of the handlers under test: the evaluation service's
\* address and a small body limit
BaseConfig == [CreateConfig EXCEPT !.ModSecurityUrl = "http://waf", !.MaxBodySize = MaxBody]

\* the configurations the model builds handlers from: the two structs set
\* directly, the cache switched off, a body limit of 0, and the eligible
\* methods set through the cacheConditionsMethods option
Configs ==
  { [BaseConfig EXCEPT !.CacheConditions = cond, !.CacheKey = key] :
      cond \in { DefaultConditions, [Methods |-> <<>>, NoBody |-> <<>>] },
      key \in { DefaultKeyOptions,
                [DefaultKeyOptions EXCEPT !.IncludeHeaders = boolPtr(TRUE)] } }
    \cup { [BaseConfig EXCEPT !.CacheKey.IncludeMethod = boolPtr(FALSE)] }
    \cup { [BaseConfig EXCEPT !.CacheEnabled = boolPtr(FALSE)] }
    \cup { [BaseConfig EXCEPT !.MaxBodySize = 0] }
    \cup { [BaseConfig EXCEPT !.CacheConditionsMethods = <<"POST">>] }

\* --------------------------------------------------- Cache Eligibility Filter
contains(methods, method) == \E i \in 1..Len(methods) : methods[i] = method

\* Check without its test of the method
CheckAnyMethod(c, r) ==
  IF c.NoBody # <<>> /\ c.NoBody[1] # (r.ContentLength = 0) THEN FALSE
  ELSE TRUE

\* Check taking an unknown content length (-1) for an empty body
CheckUnknownLengthAsEmpty(c, r) ==
  IF Len(c.Methods) > 0 /\ ~contains(c.Methods, r.Method) THEN FALSE
  ELSE IF c.NoBody # <<>> /\ c.NoBody[1] # (r.ContentLength <= 0) THEN FALSE
  ELSE TRUE

\* CacheKeyConditions.Check
Check(c, r) ==
  IF Len(c.Methods) > 0 /\ ~contains(c.Methods, r.Method) THEN FALSE
  ELSE IF c.NoBody # <<>> /\ c.NoBody[1] # (r.ContentLength = 0) THEN FALSE
  ELSE TRUE

\* --------------------------------------------------------- Cache Key Deriver
\* what one header entry <<name, values>> writes into the hasher
HeaderBytes(e) == e[1] \o ConcatAll(e[2])

\* generateCacheKey, with `order` the order in which ranging over req.Header
\* yields its entries.  The digest is taken to be injective on the bytes
\* written, so the key is those bytes.
generateCacheKey(r, options, order) ==
  LET method == IF IsSet(options.IncludeMethod) THEN r.Method ELSE ""
      uri == IF IsSet(options.IncludeRequestURI) THEN removeTrackingParams(r.URI) ELSE ""
      picked(e) == IF IsSet(options.MatchAllHeaders) THEN TRUE
                   ELSE contains(options.Headers, e[1])
      headers == IF IsSet(options.IncludeHeaders)
                 THEN ConcatAll([i \in 1..Len(order) |->
                                   IF picked(order[i]) THEN HeaderBytes(order[i]) ELSE ""])
                 ELSE ""
      host == IF IsSet(options.IncludeHost) THEN r.Host ELSE ""
      remote == IF IsSet(options.IncludeRemoteAddress) THEN r.RemoteAddr ELSE ""
  IN method \o uri \o headers \o host \o remote

\* isWebsocket looking the value up under the wrong header name
isWebsocketOfConnection(r) ==
  LET vs == HeaderValues(r.Header, "Connection")
  IN \E i \in 1..Len(vs) : vs[i] = "websocket"

\* isWebsocket: some value of the Upgrade header is exactly "websocket"
isWebsocket(r) ==
  LET vs == HeaderValues(r.Header, "Upgrade")
  IN \E i \in 1..Len(vs) : vs[i] = "websocket"

\* ------------------------------------------------------------------- inputs
Methods == {"GET", "POST"}

PlainURI == [path |-> "/a", query |-> <<>>, frag |-> ""]
TrackedURI == [path |-> "/a", query |-> << <<"utm_source", "x">> >>, frag |-> ""]

URIs == { PlainURI, TrackedURI }

\* the header maps a request may carry: a set of <<name, values>>
NoHeaders == {}
TwoHeaders == { <<"Authorization", <<"t">> >>, <<"User-Agent", <<"ua">> >> }
UpgradeHeaders == { { <<"Upgrade", <<"websocket">> >> }, { <<"Upgrade", <<"Websocket">> >> } }

\* A request: ContentLength is the declared length, -1 when the body is chunked;
\* bodyLen is the number of bytes the body stream really holds.
Request(m, u, hdr, cl, len) ==
  [ Method |-> m, URI |-> u, Host |-> "proxy.com", RemoteAddr |-> "10.0.0.1:1",
    Header |-> hdr, ContentLength |-> cl, bodyLen |-> len ]

\* requests without a body, of every method, URI and header map
BodylessRequests ==
  { Request(m, u, hdr, 0, 0) : m \in Methods, u \in URIs, hdr \in {NoHeaders, TwoHeaders} }

\* requests with a body of up to two bytes more than the limit, and chunked ones
BodyRequests ==
  { Request(m, PlainURI, NoHeaders, len, len) : m \in Methods, len \in 1..(MaxBody + 2) }
    \cup { Request("POST", PlainURI, NoHeaders, -1, len) : len \in 0..1 }

\* requests with an Upgrade header
UpgradeRequests ==
  { Request("GET", PlainURI, hdr, len, len) : hdr \in UpgradeHeaders, len \in 0..1 }

Requests == BodylessRequests \cup BodyRequests \cup UpgradeRequests

\* what the evaluation service may answer
WafStatuses == {200, 400, 403}

WafResponse(code) ==
  [ kind |-> "waf", StatusCode |-> code,
    Header |-> { <<"Server", <<"modsec">> >> }, Body |-> "Response from waf" ]

\* what the backend handler (next) writes
ServiceResponse == [ Code |-> 200, Header |-> {}, Body |-> "Response from service" ]

NoResponse == [ kind |-> "none", StatusCode |-> 0, Header |-> {}, Body |-> "" ]
NoRequest ==
  [ Method |-> "", URI |-> [path |-> "", query |-> <<>>, frag |-> ""], Host |-> "", RemoteAddr |-> "",
    Header |-> {}, ContentLength |-> 0, bodyLen |-> 0 ]
NothingWritten == [ Code |-> 0, Header |-> {}, Body |-> "" ]
NothingSent == [ Method |-> "", URL |-> "", Header |-> {} ]

\* the errors of the model
ErrTooLarge == "http: request body too large"
ErrReadAfterClose == "http: invalid Read on closed Body"
ErrDial == "dial tcp: connection refused"
ErrTimeout == "context deadline exceeded"

\* -------------------------------------------------------------------- state
VARIABLES
  config,       \* the Config the handler was built from
  a,            \* the Modsecurity handler (its configuration fields)
  cache,        \* a.cache: a set of [key, code, exp], one per key
  clock,        \* minutes since the first request
  pooled,       \* the response object cacheResponsePool hands out
  pc,           \* ServeHTTP: "idle", "wait" (wg.Wait), "done"
  pcA,          \* the body guard goroutine: "off", "copy", "finish", "done"
  pcB,          \* the verdict goroutine: "off", "start", "dial", "send", "await", "done"
  req,          \* the request in flight
  bodyPos,      \* bytes of req.Body consumed so far, by anyone
  bodyClosed,   \* req.Body has been closed
  n,            \* bytes io.Copy has returned to the guard
  mbrN,         \* the MaxBytesReader's remaining allowance
  copyErr,      \* io.Copy's error
  reqErr,       \* ServeHTTP's reqErr
  cacheKey,     \* GetCachedResponse's cacheKey ("" outside it)
  viaCache,     \* the pending forward was started by GetCachedResponse
  sent,         \* body bytes the transport has written to the evaluation service
  wafReq,       \* the request the evaluation service was sent
  wafCalls,     \* calls of httpClient.Do made for this request
  resp,         \* ServeHTTP's resp
  respErr,      \* ServeHTTP's respErr
  respClosed,   \* resp.Body has been closed
  rw,           \* what has been written to the client
  nextCalls,    \* calls of a.next.ServeHTTP made for this request
  nextSaw,      \* the request body as the backend finds it: [closed, left]
  served,       \* requests started so far
  at,           \* the clock when this request started
  prev,         \* the request served before this one, and its verdict
  written,      \* history: the last SetDefault of every key, [key, code, at, uri]
  pair,         \* two requests whose keys are compared (key derivation on its own)
  keys,         \* the keys generateCacheKey derived for them
  checked,      \* the result of CacheKeyConditions.Check (the check on its own)
  pool,         \* cacheResponsePool among concurrent requests: [objs, free]
  inflight      \* the concurrent requests, one record per worker

vars ==
  << config, a, cache, clock, pooled, pc, pcA, pcB, req, bodyPos, bodyClosed, n, mbrN, copyErr,
     reqErr, cacheKey, viaCache, sent, wafReq, wafCalls, resp, respErr, respClosed, rw,
     nextCalls, nextSaw, served, at, prev, written, pair, keys, checked, pool, inflight >>

cacheVars == << cache, pooled, written >>
guardVars == << n, mbrN, copyErr, reqErr >>
verdictVars == << cacheKey, viaCache, sent, wafReq, wafCalls, resp, respErr >>
clientVars == << rw, nextCalls, nextSaw, respClosed >>

\* what no request served on its own changes: the handler, the inputs and
\* results of the functions taken alone, and the concurrent requests
fixed == << config, a, pair, keys, checked, pool, inflight >>

\* the state of a request served on its own
serialVars ==
  << clock, pooled, pc, pcA, pcB, req, bodyPos, bodyClosed, guardVars, verdictVars,
     clientVars, served, at, prev >>

\* the workers that serve requests at the same time
Workers == { "w1", "w2" }

\* a worker between requests: obj is the pooled object its resp points to
\* (0: none), want the status the cache held for its key
NoWork ==
  [ pc |-> "idle", req |-> NoRequest, key |-> "", viaCache |-> FALSE, obj |-> 0, want |-> 0,
    resp |-> NoResponse, respErr |-> Nil, rw |-> NothingWritten, nextCalls |-> 0,
    wafCalls |-> 0, round |-> 0 ]


NoPrev == [ same |-> FALSE, code |-> 0, at |-> 0 ]

NoPair == << >>

\* no request has been served yet
Idle ==
  /\ cache = {}
  /\ clock = 0
  /\ pooled = [ StatusCode |-> 0, Header |-> {}, Body |-> "" ]
  /\ pc = "idle" /\ pcA = "off" /\ pcB = "off"
  /\ req = NoRequest
  /\ bodyPos = 0 /\ bodyClosed = FALSE
  /\ n = 0 /\ mbrN = 0 /\ copyErr = Nil /\ reqErr = Nil
  /\ cacheKey = "" /\ viaCache = FALSE /\ sent = 0
  /\ wafReq = NothingSent /\ wafCalls = 0
  /\ resp = NoResponse /\ respErr = Nil /\ respClosed = FALSE
  /\ rw = NothingWritten /\ nextCalls = 0
  /\ nextSaw = [closed |-> FALSE, left |-> 0]
  /\ served = 0
  /\ at = 0
  /\ prev = NoPrev
  /\ written = {}
  /\ checked = << >>
  /\ pool = [ objs |-> << >>, free |-> {} ]
  /\ inflight = [ w \in Workers |-> NoWork ]

Init ==
  /\ config \in Configs
  /\ a = New(config)
  /\ pair = NoPair /\ keys = << >>
  /\ Idle

\* ------------------------------------------------------------- Verdict Cache
\* cache.Get without its test of the expiration time
CacheGetExpired(c, k, now) == { e \in c : e.key = k }

\* cache.Get: the entry of key k, unless it has expired
CacheGet(c, k, now) == { e \in c : e.key = k /\ ~(now > e.exp) }

\* cache.SetDefault: insert or overwrite, with a fresh time to live
SetDefault(c, k, code, now) ==
  { e \in c : e.key # k } \cup { [key |-> k, code |-> code, exp |-> now + DefaultExpiration] }

\* ----------------------------------------------- Verdict Response Synthesizer
\* newPooledCacheResponse: the pooled object, filled in
newPooledCacheResponse(obj, statusCode, body) ==
  LET statusText == IF body # "" THEN body ELSE StatusText(statusCode)
  IN [ StatusCode |-> statusCode,
       Header |-> { e \in obj.Header : e[1] # "Status-Text" }
                    \cup { <<"Status-Text", <<statusText>> >> },
       Body |-> body ]

\* putResponse: Body.Close() of a NopCloser does nothing; the header map is replaced
putResponse(obj) == [ obj EXCEPT !.Header = {} ]

\* the response a *http.Response variable points to
Deref(rp) ==
  IF rp.kind = "pooled"
  THEN [ kind |-> "pooled", StatusCode |-> pooled.StatusCode,
         Header |-> pooled.Header, Body |-> pooled.Body ]
  ELSE rp

\* ------------------------------------------------------------ client writes
\* http.Error(rw, msg, code)
HttpError(w, msg, code) ==
  [ Code |-> code,
    Header |-> { e \in w.Header : e[1] \notin {"Content-Type", "X-Content-Type-Options"} }
                 \cup { <<"Content-Type", <<"text/plain; charset=utf-8">> >>,
                        <<"X-Content-Type-Options", <<"nosniff">> >> },
    Body |-> w.Body \o msg \o "\n" ]

\* rw.Header().Add for every value of every header of `hdr`
AddHeaders(to, hdr) ==
  { e \in to : HeaderValues(hdr, e[1]) = <<>> }
    \cup { <<e[1], HeaderValues(to, e[1]) \o e[2]>> : e \in hdr }

\* forwardResponse
forwardResponse(rp, w) ==
  [ Code |-> rp.StatusCode, Header |-> AddHeaders(w.Header, rp.Header), Body |-> w.Body \o rp.Body ]

\* a.next.ServeHTTP(rw, req): the backend writes its response
NextServeHTTP(w) ==
  [ Code |-> ServiceResponse.Code,
    Header |-> AddHeaders(w.Header, ServiceResponse.Header),
    Body |-> w.Body \o ServiceResponse.Body ]

\* req.Body is http.NoBody when the declared length is 0: Close does nothing
Closable(r) == r.ContentLength # 0

\* ------------------------------------------------------ Request Orchestrator
\* the verdict ServeHTTP acted on for the request just served (0: none)
VerdictCode ==
  IF respErr = Nil /\ resp.kind # "none" THEN Deref(resp).StatusCode ELSE 0

\* what is remembered of the request just served when request r starts: whether
\* r repeats it, the verdict it got, and when
Remember(r) ==
  IF pc = "done"
  THEN [ same |-> (r = req), code |-> VerdictCode, at |-> at ]
  ELSE NoPrev

\* a fresh request r enters ServeHTTP
Enter(r) ==
  /\ pc \in {"idle", "done"}
  /\ served' = served + 1
  /\ prev' = Remember(r)
  /\ at' = clock
  /\ req' = r
  /\ bodyPos' = 0 /\ bodyClosed' = FALSE
  /\ n' = 0 /\ copyErr' = Nil /\ reqErr' = Nil
  /\ cacheKey' = "" /\ viaCache' = FALSE /\ sent' = 0
  /\ wafReq' = NothingSent /\ wafCalls' = 0
  /\ resp' = NoResponse /\ respErr' = Nil /\ respClosed' = FALSE
  /\ UNCHANGED << fixed, clock, cacheVars >>

\* ServeHTTP, a websocket upgrade: straight to the backend
ServeUpgrade(r) ==
  /\ Enter(r)
  /\ isWebsocket(r)
  /\ rw' = NextServeHTTP(NothingWritten)
  /\ nextCalls' = 1
  /\ nextSaw' = [closed |-> FALSE, left |-> r.bodyLen]
  /\ mbrN' = 0
  /\ pc' = "done" /\ pcA' = "off" /\ pcB' = "off"

\* ServeHTTP up to wg.Wait: the two goroutines are started
ServeFork(r) ==
  /\ Enter(r)
  /\ ~isWebsocket(r)
  /\ rw' = NothingWritten
  /\ nextCalls' = 0
  /\ nextSaw' = [closed |-> FALSE, left |-> 0]
  /\ mbrN' = a.maxBodySize + 1
  /\ pc' = "wait" /\ pcA' = "copy" /\ pcB' = "start"

\* ServeHTTP from the moment `ready`: return when `failed`, relay the verdict
\* when `rejected`, and call the backend otherwise
JoinAfter(ready, failed, rejected) ==
  /\ pc = "wait" /\ ready
  /\ pc' = "done"
  /\ IF failed
     THEN UNCHANGED clientVars
     ELSE /\ respClosed' = TRUE
          /\ IF rejected
             THEN /\ rw' = forwardResponse(Deref(resp), rw)
                  /\ UNCHANGED << nextCalls, nextSaw >>
             ELSE /\ rw' = NextServeHTTP(rw)
                  /\ nextCalls' = nextCalls + 1
                  /\ nextSaw' = [closed |-> bodyClosed, left |-> req.bodyLen - bodyPos]
  /\ UNCHANGED << fixed, clock, cacheVars, pcA, pcB, req, bodyPos, bodyClosed, guardVars,
                  verdictVars, served, at, prev >>

\* ServeHTTP waiting for a third wg.Done that nobody calls (wg.Add(3))
JoinNeverReady(failed, rejected) == JoinAfter(FALSE, failed, rejected)

\* ServeHTTP waiting for the verdict goroutine only (wg.Add(1))
JoinWithoutBarrier(failed, rejected) == JoinAfter(pcB = "done", failed, rejected)

\* ServeHTTP after wg.Wait: both goroutines have called wg.Done
JoinWhen(failed, rejected) == JoinAfter(pcA = "done" /\ pcB = "done", failed, rejected)

\* ServeHTTP with a wrong threshold: the verdict is relayed from status 200 on
JoinRejectsFrom200 ==
  JoinWhen(reqErr # Nil \/ respErr # Nil, Deref(resp).StatusCode >= 200)

\* ServeHTTP with && for ||: it returns early only when both goroutines failed
JoinNeedsBothErrors ==
  JoinWhen(reqErr # Nil /\ respErr # Nil, Deref(resp).StatusCode >= RejectFrom)

\* ServeHTTP testing respErr only: a failure of the Body Guard is not seen
JoinIgnoringGuard ==
  JoinWhen(respErr # Nil, Deref(resp).StatusCode >= RejectFrom)

Join ==
  JoinWhen(reqErr # Nil \/ respErr # Nil, Deref(resp).StatusCode >= RejectFrom)

\* ---------------------------------------------------------------- Body Guard
\* HandleRequestBodyMaxSize: one Read of io.Copy through the MaxBytesReader
GuardRead ==
  /\ pcA = "copy"
  /\ IF Closable(req) /\ bodyClosed
     THEN /\ copyErr' = ErrReadAfterClose
          /\ pcA' = "finish"
          /\ UNCHANGED << bodyPos, n, mbrN >>
     ELSE IF bodyPos = req.bodyLen
     THEN /\ pcA' = "finish"
          /\ UNCHANGED << bodyPos, n, mbrN, copyErr >>
     ELSE /\ bodyPos' = bodyPos + 1
          /\ IF mbrN >= 1
             THEN /\ mbrN' = mbrN - 1
                  /\ n' = n + 1
                  /\ UNCHANGED << copyErr, pcA >>
             ELSE /\ copyErr' = ErrTooLarge
                  /\ pcA' = "finish"
                  /\ UNCHANGED << n, mbrN >>
  /\ UNCHANGED << fixed, clock, cacheVars, pc, pcB, req, bodyClosed, reqErr, verdictVars,
                  clientVars, served, at, prev >>

\* HandleRequestBodyMaxSize after io.Copy: close the body, report
GuardFinish ==
  /\ pcA = "finish"
  /\ pcA' = "done"
  /\ bodyClosed' = (bodyClosed \/ Closable(req))
  /\ IF copyErr # Nil
     THEN /\ rw' = HttpError(rw, "", IF copyErr = ErrTooLarge
                                      THEN StatusRequestEntityTooLarge
                                      ELSE StatusBadGateway)
          /\ reqErr' = copyErr
     ELSE IF n > a.maxBodySize
     THEN /\ rw' = HttpError(rw, "", StatusRequestEntityTooLarge)
          /\ reqErr' = ErrTooLarge
     ELSE /\ reqErr' = Nil
          /\ UNCHANGED rw
  /\ UNCHANGED << fixed, clock, cacheVars, pc, pcB, req, bodyPos, n, mbrN, copyErr, verdictVars,
                  nextCalls, nextSaw, respClosed, served, at, prev >>

\* ---------------------------------------------------------- verdict pipeline
\* GetCachedResponse up to the forward: `order` is the header iteration order
LookUp(order) ==
  LET key == generateCacheKey(req, a.cacheKey, order)
      found == CacheGet(cache, key, clock)
  IN /\ cacheKey' = key
     /\ IF found # {}
        THEN LET cachedCode == (CHOOSE e \in found : TRUE).code
                 statusCode == cachedCode % CodeModulus
                 body == StatusText(statusCode)
             IN /\ pooled' = putResponse(newPooledCacheResponse(pooled, statusCode, body))
                /\ resp' = [NoResponse EXCEPT !.kind = "pooled"]
                /\ pcB' = "done"
                /\ UNCHANGED viaCache
        ELSE /\ viaCache' = TRUE
             /\ pcB' = "dial"
             /\ UNCHANGED << pooled, resp >>

\* HandleCacheAndForwardRequest up to the forward
VerdictStart ==
  /\ pcB = "start"
  /\ IF ~a.cacheEnabled
     THEN /\ pcB' = "dial"
          /\ UNCHANGED << cacheKey, viaCache, pooled, resp >>
     ELSE IF Check(a.cacheConditions, req)
     THEN \E order \in Orderings(req.Header) : LookUp(order)
     ELSE /\ pcB' = "dial"
          /\ UNCHANGED << cacheKey, viaCache, pooled, resp >>
  /\ UNCHANGED << fixed, cache, clock, pc, pcA, req, bodyPos, bodyClosed, guardVars, sent, wafReq,
                  wafCalls, respErr, clientVars, served, at, prev, written >>

\* PrepareForwardedRequest calling httpClient.Do once more after a first
\* failure to connect
ForwardDialRetrying ==
  /\ pcB = "dial"
  /\ wafCalls' = wafCalls + 1
  /\ wafReq' = [ Method |-> req.Method,
                 URL |-> a.modSecurityUrl \o RequestURI(req.URI),
                 Header |-> req.Header ]
  /\ \/ /\ wafCalls = 0
        /\ pcB' = "dial"
        /\ UNCHANGED << respErr, bodyClosed >>
     \/ /\ wafCalls > 0
        /\ respErr' = ErrDial
        /\ bodyClosed' = (bodyClosed \/ Closable(req))
        /\ pcB' = "done"
     \/ /\ pcB' = "send"
        /\ UNCHANGED << respErr, bodyClosed >>
  /\ UNCHANGED << fixed, clock, cacheVars, pc, pcA, req, bodyPos, guardVars, cacheKey, viaCache,
                  sent, resp, clientVars, served, at, prev >>

\* PrepareForwardedRequest: the request is built and httpClient.Do starts;
\* the transport closes the request body when the dial fails
ForwardDial ==
  /\ pcB = "dial"
  /\ wafCalls' = wafCalls + 1
  /\ wafReq' = [ Method |-> req.Method,
                 URL |-> a.modSecurityUrl \o RequestURI(req.URI),
                 Header |-> req.Header ]
  /\ \/ /\ respErr' = ErrDial
        /\ bodyClosed' = (bodyClosed \/ Closable(req))
        /\ pcB' = "done"
     \/ /\ pcB' = "send"
        /\ UNCHANGED << respErr, bodyClosed >>
  /\ UNCHANGED << fixed, clock, cacheVars, pc, pcA, req, bodyPos, guardVars, cacheKey, viaCache,
                  sent, resp, clientVars, served, at, prev >>

\* httpClient.Do: the transport reads req.Body and writes it out; it closes the
\* body at its end, and fails on a body somebody closed
ForwardSend ==
  /\ pcB = "send"
  /\ IF Closable(req) /\ bodyClosed
     THEN /\ respErr' = ErrReadAfterClose
          /\ pcB' = "done"
          /\ UNCHANGED << bodyPos, bodyClosed, sent >>
     ELSE IF bodyPos = req.bodyLen
     THEN /\ bodyClosed' = Closable(req)
          /\ pcB' = "await"
          /\ UNCHANGED << bodyPos, sent, respErr >>
     ELSE /\ bodyPos' = bodyPos + 1
          /\ sent' = sent + 1
          /\ UNCHANGED << bodyClosed, respErr, pcB >>
  /\ UNCHANGED << fixed, clock, cacheVars, pc, pcA, req, guardVars, cacheKey, viaCache, wafReq,
                  wafCalls, resp, clientVars, served, at, prev >>

\* httpClient.Do returns: a timeout, or the evaluation service's answer, which
\* is stored in the cache when `store`
ForwardReplyStoring(store) ==
  /\ pcB = "await"
  /\ pcB' = "done"
  /\ \/ /\ respErr' = ErrTimeout
        /\ UNCHANGED << resp, cache, written >>
     \/ \E code \in WafStatuses :
          /\ resp' = WafResponse(code)
          /\ cache' = IF store
                      THEN SetDefault(cache, cacheKey, code % CodeModulus, clock)
                      ELSE cache
          /\ written' = IF store
                        THEN { e \in written : e.key # cacheKey }
                               \cup { [key |-> cacheKey, code |-> code % CodeModulus, at |-> clock,
                                        uri |-> RequestURI(req.URI)] }
                        ELSE written
          /\ UNCHANGED respErr
  /\ UNCHANGED << fixed, clock, pooled, pc, pcA, req, bodyPos, bodyClosed, guardVars, cacheKey,
                  viaCache, sent, wafReq, wafCalls, clientVars, served, at, prev >>

\* SetDefault after every forward, also after PrepareForwardedRequest called
\* from HandleCacheAndForwardRequest directly
ForwardReplyCachingAll == ForwardReplyStoring(TRUE)

\* only GetCachedResponse stores the answer
ForwardReply == ForwardReplyStoring(viaCache)

\* ------------------------------------------------------------------ the cache's clock
\* a minute passes (between requests: a request lasts seconds)
Tick ==
  /\ pc \in {"idle", "done"}
  /\ cache # {}
  /\ clock < MaxClock
  /\ clock' = clock + 1
  /\ UNCHANGED << fixed, cacheVars, pc, pcA, pcB, req, bodyPos, bodyClosed, guardVars, verdictVars,
                  clientVars, served, at, prev >>

\* the cache's janitor: DeleteExpired
DeleteExpired ==
  /\ pc \in {"idle", "done"}
  /\ \E e \in cache : clock > e.exp
  /\ cache' = { e \in cache : ~(clock > e.exp) }
  /\ UNCHANGED << fixed, clock, pooled, pc, pcA, pcB, req, bodyPos, bodyClosed, guardVars,
                  verdictVars, clientVars, served, at, prev, written >>

\* the requests of one behaviour
ServeUpgrades == \E r \in Requests : served < MaxRequests /\ ServeUpgrade(r)

ServeForks == \E r \in Requests : served < MaxRequests /\ ServeFork(r)

Next ==
  \/ ServeUpgrades
  \/ ServeForks
  \/ Join
  \/ GuardRead
  \/ GuardFinish
  \/ VerdictStart
  \/ ForwardDial
  \/ ForwardSend
  \/ ForwardReply

Spec == Init /\ [][Next]_vars

\* Fair scheduling: a goroutine that can take its next step takes it, a body
\* Read returns, httpClient.Do returns (the client has a Timeout), and wg.Wait
\* returns once both goroutines have called wg.Done
Fairness ==
  /\ WF_vars(GuardRead)
  /\ WF_vars(GuardFinish)
  /\ WF_vars(VerdictStart)
  /\ WF_vars(ForwardDial)
  /\ WF_vars(ForwardSend)
  /\ WF_vars(ForwardReply)
  /\ WF_vars(Join)

\* the handler of the default configuration, with the small body limit
InitFair == Init /\ config = BaseConfig

SpecFair == InitFair /\ [][Next]_vars /\ Fairness

\* ---------------------------------------------- the key derivation on its own
\* generateCacheKey applied to two requests under one set of key options
KeyPaths == { "/a", "/ab." }
KeyHosts == { "proxy.com", "b.proxy.com" }

KeyQueries ==
  { <<>>,
    << <<"id", "1">> >>,
    << <<"utm_source", "x">> >>,
    << <<"utm_source", "x">>, <<"id", "1">> >> }

KeyURIs ==
  { [path |-> path, query |-> query, frag |-> frag] :
      path \in KeyPaths, query \in KeyQueries, frag \in { "", BadFragment } }

KeyHeaderMaps == { NoHeaders, TwoHeaders, { <<"Authorization", <<"t">> >> } }

KeyRequests ==
  { [ Request(m, u, hdr, 0, 0) EXCEPT !.Host = h ] :
      m \in Methods, u \in KeyURIs, hdr \in KeyHeaderMaps, h \in KeyHosts }

KeyOptions ==
  { DefaultKeyOptions,
    [DefaultKeyOptions EXCEPT !.IncludeHeaders = boolPtr(TRUE)],
    [DefaultKeyOptions EXCEPT !.IncludeHeaders = boolPtr(TRUE),
                              !.MatchAllHeaders = boolPtr(TRUE)],
    [DefaultKeyOptions EXCEPT !.IncludeRequestURI = boolPtr(FALSE)] }

InitKeys ==
  /\ config \in { [BaseConfig EXCEPT !.CacheKey = key] : key \in KeyOptions }
  /\ a = New(config)
  /\ pair \in KeyRequests \X KeyRequests
  /\ keys = << >>
  /\ Idle

\* generateCacheKey runs on both requests, each with its own iteration order
\* of the header map
DeriveKeys ==
  /\ pair # NoPair /\ keys = << >>
  /\ \E o1 \in Orderings(pair[1].Header), o2 \in Orderings(pair[2].Header) :
       keys' = << generateCacheKey(pair[1], a.cacheKey, o1),
                  generateCacheKey(pair[2], a.cacheKey, o2) >>
  /\ UNCHANGED << config, a, pair, checked, pool, inflight, cacheVars, serialVars >>

NextKeys == DeriveKeys

SpecKeys == InitKeys /\ [][NextKeys]_vars

\* ------------------------------------------------ the eligibility check on its own
\* CacheKeyConditions.Check applied to one request under one rule
CheckMethodLists == { << >>, <<"GET">>, <<"POST">>, <<"GET", "POST">>, <<"get">> }

CheckNoBodies == { << >>, boolPtr(TRUE), boolPtr(FALSE) }

CheckRules == { [Methods |-> ms, NoBody |-> nb] : ms \in CheckMethodLists, nb \in CheckNoBodies }

CheckLengths == { -1, 0, 1 }

CheckRequests ==
  { Request(m, PlainURI, NoHeaders, cl, IF cl = 1 THEN 1 ELSE 0) :
      m \in { "GET", "POST", "get", "PUT" }, cl \in CheckLengths }

InitCheck ==
  /\ config \in { [BaseConfig EXCEPT !.CacheConditions = c] : c \in CheckRules }
  /\ a = New(config)
  /\ pair = NoPair /\ keys = << >>
  /\ Idle

\* HandleCacheAndForwardRequest evaluates a.cacheConditions.Check(req)
CheckRequest(r) ==
  /\ checked = << >>
  /\ req' = r
  /\ checked' = << Check(a.cacheConditions, r) >>
  /\ UNCHANGED << config, a, pair, keys, pool, inflight, cacheVars, clock, pc, pcA, pcB, bodyPos,
                  bodyClosed, guardVars, verdictVars, clientVars, served, at, prev >>

CheckRequestsAll == \E r \in CheckRequests : CheckRequest(r)

NextCheck == CheckRequestsAll

SpecCheck == InitCheck /\ [][NextCheck]_vars

\* ------------------------------------------------ requests served concurrently
\* Traefik calls ServeHTTP from one goroutine per request, all on one handler:
\* the workers share a.cache and cacheResponsePool.  Their requests are
\* bodyless GETs of two URIs (two keys); the Body Guard of such a request reads
\* http.NoBody, returns nil and touches neither the cache nor the pool.
OtherURI == [path |-> "/b", query |-> <<>>, frag |-> ""]

PoolRequests == { Request("GET", u, NoHeaders, 0, 0) : u \in { PlainURI, OtherURI } }

InitPool == Init /\ config = BaseConfig

\* the response a worker's resp points to: a pooled object is read as it is now
PoolDeref(x) ==
  IF x.obj # 0
  THEN [ kind |-> "pooled", StatusCode |-> pool.objs[x.obj].StatusCode,
         Header |-> pool.objs[x.obj].Header, Body |-> pool.objs[x.obj].Body ]
  ELSE x.resp

\* ServeHTTP is entered for request r
PoolServe(w, r) ==
  /\ inflight[w].pc \in { "idle", "done" }
  /\ ~isWebsocket(r)
  /\ inflight' = [ inflight EXCEPT ![w] =
                     [ NoWork EXCEPT !.pc = "start", !.req = r,
                                     !.round = inflight[w].round + 1 ] ]
  /\ UNCHANGED << config, a, pair, keys, checked, pool, cacheVars, serialVars >>

\* HandleCacheAndForwardRequest up to the forward; on a hit GetCachedResponse
\* takes an object from the pool (any free one, or a new one) and fills it in
PoolLookUp(w) ==
  LET x == inflight[w]
      key == generateCacheKey(x.req, a.cacheKey, << >>)
      found == CacheGet(cache, key, clock)
  IN /\ x.pc = "start"
     /\ IF a.cacheEnabled /\ Check(a.cacheConditions, x.req)
        THEN IF found # {}
             THEN LET statusCode == (CHOOSE e \in found : TRUE).code % CodeModulus
                      body == StatusText(statusCode)
                      fresh == [ StatusCode |-> 0, Header |-> {}, Body |-> "" ]
                  IN \/ \E o \in pool.free :
                          /\ pool' = [ objs |-> [ pool.objs EXCEPT ![o] =
                                                   newPooledCacheResponse(@, statusCode, body) ],
                                       free |-> pool.free \ { o } ]
                          /\ inflight' = [ inflight EXCEPT ![w].pc = "hit", ![w].key = key,
                                                           ![w].obj = o, ![w].want = statusCode ]
                     \/ /\ Len(pool.objs) < MaxObjects
                        /\ pool' = [ objs |-> Append(pool.objs,
                                                     newPooledCacheResponse(fresh, statusCode, body)),
                                     free |-> pool.free ]
                        /\ inflight' = [ inflight EXCEPT ![w].pc = "hit", ![w].key = key,
                                                         ![w].obj = Len(pool.objs) + 1,
                                                         ![w].want = statusCode ]
             ELSE /\ inflight' = [ inflight EXCEPT ![w].pc = "forward", ![w].key = key,
                                                   ![w].viaCache = TRUE ]
                  /\ UNCHANGED pool
        ELSE /\ inflight' = [ inflight EXCEPT ![w].pc = "forward" ]
             /\ UNCHANGED pool
     /\ UNCHANGED << config, a, pair, keys, checked, cacheVars, serialVars >>

\* GetCachedResponse returns: the deferred putResponse resets the header map
\* and puts the object back into the pool
PoolRelease(w) ==
  LET x == inflight[w]
  IN /\ x.pc = "hit"
     /\ pool' = [ objs |-> [ pool.objs EXCEPT ![x.obj] = putResponse(@) ],
                  free |-> pool.free \cup { x.obj } ]
     /\ inflight' = [ inflight EXCEPT ![w].pc = "join" ]
     /\ UNCHANGED << config, a, pair, keys, checked, cacheVars, serialVars >>

\* PrepareForwardedRequest: httpClient.Do fails, or the evaluation service
\* answers and GetCachedResponse stores the status
PoolReply(w) ==
  LET x == inflight[w]
  IN /\ x.pc = "forward"
     /\ \/ /\ \E err \in { ErrDial, ErrTimeout } :
                inflight' = [ inflight EXCEPT ![w].pc = "join", ![w].respErr = err,
                                                 ![w].wafCalls = x.wafCalls + 1 ]
           /\ UNCHANGED << cache, written >>
        \/ \E code \in WafStatuses :
             /\ inflight' = [ inflight EXCEPT ![w].pc = "join", ![w].resp = WafResponse(code),
                                              ![w].wafCalls = x.wafCalls + 1 ]
             /\ cache' = IF x.viaCache
                         THEN SetDefault(cache, x.key, code % CodeModulus, clock)
                         ELSE cache
             /\ written' = IF x.viaCache
                           THEN { e \in written : e.key # x.key }
                                  \cup { [key |-> x.key, code |-> code % CodeModulus, at |-> clock,
                                           uri |-> RequestURI(x.req.URI)] }
                           ELSE written
     /\ UNCHANGED << config, a, pair, keys, checked, pool, pooled, serialVars >>

\* ServeHTTP after wg.Wait: return on an error, else read resp.StatusCode and
\* either go on to forwardResponse or call the backend
PoolJoin(w) ==
  LET x == inflight[w]
  IN /\ x.pc = "join"
     /\ IF x.respErr # Nil
        THEN inflight' = [ inflight EXCEPT ![w].pc = "done" ]
        ELSE IF PoolDeref(x).StatusCode >= RejectFrom
        THEN inflight' = [ inflight EXCEPT ![w].pc = "relay" ]
        ELSE inflight' = [ inflight EXCEPT ![w].pc = "done", ![w].rw = NextServeHTTP(x.rw),
                                          ![w].nextCalls = x.nextCalls + 1 ]
     /\ UNCHANGED << config, a, pair, keys, checked, pool, cacheVars, serialVars >>

\* forwardResponse reads the headers, the status and the body of resp
PoolRelay(w) ==
  LET x == inflight[w]
  IN /\ x.pc = "relay"
     /\ inflight' = [ inflight EXCEPT ![w].pc = "done",
                                      ![w].rw = forwardResponse(PoolDeref(x), x.rw) ]
     /\ UNCHANGED << config, a, pair, keys, checked, pool, cacheVars, serialVars >>

\* the requests the workers have entered so far
PoolServed == inflight["w1"].round + inflight["w2"].round

PoolServes == \E w \in Workers, r \in PoolRequests : PoolServed < MaxPoolRequests /\ PoolServe(w, r)

PoolLookUps == \E w \in Workers : PoolLookUp(w)

PoolReleases == \E w \in Workers : PoolRelease(w)

PoolReplies == \E w \in Workers : PoolReply(w)

PoolJoins == \E w \in Workers : PoolJoin(w)

PoolRelays == \E w \in Workers : PoolRelay(w)

NextPool ==
  \/ PoolServes
  \/ PoolLookUps
  \/ PoolReleases
  \/ PoolReplies
  \/ PoolJoins
  \/ PoolRelays

SpecPool == InitPool /\ [][NextPool]_vars

\* The cache over time: bodyless requests of two URIs with one normal form,
\* time passing between them, the janitor running when it will.
TimedRequests == { Request(m, u, NoHeaders, 0, 0) : m \in Methods, u \in URIs }

\* the handlers with the cache enabled and CreateConfig's key, either with
\* CreateConfig's eligibility rule or with none
InitTimed ==
  /\ Init
  /\ \E cond \in { DefaultConditions, [Methods |-> <<>>, NoBody |-> <<>>] } :
       config = [BaseConfig EXCEPT !.CacheConditions = cond]

ServeTimed == \E r \in TimedRequests : served < MaxTimedRequests /\ ServeFork(r)

NextTimed ==
  \/ ServeTimed
  \/ Join
  \/ GuardRead
  \/ GuardFinish
  \/ VerdictStart
  \/ ForwardDial
  \/ ForwardSend
  \/ ForwardReply
  \/ Tick
  \/ DeleteExpired

SpecTimed == InitTimed /\ [][NextTimed]_vars

\* ======================================================================
\* The claims
\* ======================================================================
Done == pc = "done"

\* the request in flight carries the header value Upgrade: websocket
CarriesUpgradeWebsocket == <<"Upgrade", <<"websocket">> >> \in req.Header

\* the request went through the fork (it is no protocol upgrade)
Guarded == Done /\ ~CarriesUpgradeWebsocket

\* the evaluation service answered this request
Answered == respErr = Nil /\ resp.kind = "waf"

\* the client got exactly the backend's response
BackendAnswered == rw = [Code |-> 200, Header |-> {}, Body |-> "Response from service"]

\* the client got http.Error's response for `code`, with no message
ErrorAnswered(code) ==
  /\ rw.Code = code
  /\ rw.Body = "\n"

\* C1: a non-upgrade request whose evaluation-service response has status >= 400
\* has that response's status, headers and body relayed unchanged to the client,
\* and the backend is never invoked.
C1_RejectionRelayed ==
  (Guarded /\ Answered /\ resp.StatusCode >= 400)
    => /\ rw = [Code |-> resp.StatusCode, Header |-> resp.Header, Body |-> resp.Body]
       /\ nextCalls = 0

\* C2: a non-upgrade request that passes the Body Guard and whose verdict status
\* is below 400 reaches the backend exactly once, and the client sees only the
\* backend's response.
C2_AllowedReachesBackend ==
  (Guarded /\ reqErr = Nil /\ respErr = Nil /\ resp.kind # "none"
     /\ Deref(resp).StatusCode < 400)
    => /\ nextCalls = 1
       /\ BackendAnswered

C2_Witness ==
  /\ Guarded /\ reqErr = Nil /\ Answered /\ resp.StatusCode = 200
  /\ req.bodyLen = 1 /\ nextCalls = 1

\* C3: when the call to the evaluation service fails (dial error or timeout),
\* the client receives 502.
C3_FailedCallAnswers502 ==
  (Guarded /\ respErr \in {ErrDial, ErrTimeout}) => rw.Code = 502

\* C4: whenever the evaluation-service call of a request returned an error, the
\* backend is not invoked for that request.
C4_FailedCallNeverAllowed ==
  (respErr # Nil) => nextCalls = 0

C4_Witness ==
  Done /\ respErr = ErrTimeout /\ reqErr = Nil /\ wafCalls = 1 /\ nextCalls = 0

\* C5: in every interleaving, a body of at most maxBodySize bytes is accepted by
\* the Body Guard, and a longer one makes the client receive 413 with no message,
\* the backend never invoked.
C5_GuardDecidesBySize ==
  Guarded =>
    IF req.bodyLen <= a.maxBodySize
    THEN reqErr = Nil
    ELSE ErrorAnswered(413) /\ nextCalls = 0

\* C6: a request whose body exceeds maxBodySize never reaches the evaluation
\* service: no call is made for it and no verdict is cached from it.
C6_OversizedNeverEvaluated ==
  (~CarriesUpgradeWebsocket /\ req.bodyLen > a.maxBodySize)
    => /\ wafCalls = 0
       /\ ~(viaCache /\ resp.kind = "waf")

\* C7: the request the evaluation service answers carried the original method,
\* the original headers, the URL base address + RequestURI and the complete body.
C7_ForwardedRequestComplete ==
  (~CarriesUpgradeWebsocket /\ Answered)
    => /\ wafReq.Method = req.Method
       /\ wafReq.Header = req.Header
       /\ wafReq.URL = a.modSecurityUrl \o RequestURI(req.URI)
       /\ sent = req.bodyLen

\* the bytes of the request body the backend can read when it is invoked
BackendReadable == IF nextSaw.closed THEN 0 ELSE nextSaw.left

\* C8: when an allowed request is handed to the backend, the backend can still
\* read the complete body the client sent.
C8_BackendReadsWholeBody ==
  (Done /\ nextCalls = 1) => BackendReadable = req.bodyLen

\* C9: a request carrying Upgrade: websocket goes straight to the backend with
\* its body untouched; the Body Guard reads nothing, the cache is neither read
\* nor written, and the evaluation service is not called.
C9_UpgradeState ==
  CarriesUpgradeWebsocket =>
    /\ pc = "done" /\ pcA = "off" /\ pcB = "off"
    /\ nextCalls = 1 /\ BackendAnswered
    /\ nextSaw = [closed |-> FALSE, left |-> req.bodyLen]
    /\ bodyPos = 0 /\ ~bodyClosed /\ n = 0
    /\ cacheKey = "" /\ wafCalls = 0 /\ wafReq = NothingSent

C9_UpgradeStep ==
  (served' # served /\ <<"Upgrade", <<"websocket">> >> \in req'.Header)
    => /\ cache' = cache
       /\ pooled' = pooled

C9_UpgradeBypasses == [](C9_UpgradeState) /\ [][C9_UpgradeStep]_vars

C9_Witness ==
  /\ CarriesUpgradeWebsocket /\ req.bodyLen = 1 /\ nextCalls = 1
  /\ cache # {} /\ served = 2

\* C10: with the cache enabled, a request that repeats the one served just
\* before it, is cache-eligible and comes within the time to live of the verdict
\* its predecessor obtained makes no call to the evaluation service and acts on
\* the predecessor's status code; when relayed, the body is the status phrase.
C10_RepeatServedFromCache ==
  (Guarded /\ prev.same /\ prev.code # 0 /\ a.cacheEnabled
     /\ Check(a.cacheConditions, req) /\ clock <= prev.at + DefaultExpiration)
    => /\ wafCalls = 0
       /\ VerdictCode = prev.code
       /\ (reqErr = Nil /\ prev.code >= 400 => rw.Code = prev.code /\ rw.Body = StatusText(prev.code))

\* C10 holds of the handlers whose key leaves the headers out
C10_WithoutHeaders ==
  ~IsSet(a.cacheKey.IncludeHeaders) => C10_RepeatServedFromCache

\* the request in flight has a method outside a non-empty eligible-methods list
MethodIneligible ==
  /\ pc # "idle" /\ ~CarriesUpgradeWebsocket
  /\ Len(a.cacheConditions.Methods) > 0
  /\ ~contains(a.cacheConditions.Methods, req.Method)

C11_NoHit ==
  MethodIneligible
    => /\ cacheKey = "" /\ ~viaCache /\ resp.kind # "pooled"
       /\ (pcB = "done" => wafCalls = 1)

C11_NoWrite ==
  (MethodIneligible /\ pc = "wait") => (cache' = cache /\ pooled' = pooled)

IsLookup ==
  /\ pcB = "start" /\ pcB' # "start"
  /\ a.cacheEnabled /\ Check(a.cacheConditions, req)

\* the last write of key k that is still within its time to live at `now`
LiveWrites(k, now) ==
  { e \in written : e.key = k /\ now <= e.at + DefaultExpiration }

C12_LookupStep ==
  IsLookup =>
    LET live == LiveWrites(cacheKey', clock)
    IN IF live # {}
       THEN /\ resp'.kind = "pooled" /\ ~viaCache'
            /\ \A e \in live : pooled'.StatusCode = e.code
       ELSE /\ viaCache' /\ resp'.kind = "none"

\* C12: a lookup of key k returns the status last written for k exactly when it
\* comes within the time to live counted from that write: lookups in between
\* do not extend the lifetime, and an expired entry is not returned whether or
\* not the janitor has removed it.
C12_EntryLivesForTTL == [][C12_LookupStep]_vars

\* the third request of a row: the first wrote the verdict, the second was
\* served from it, and the third, past the first's time to live but within
\* five minutes of the second, misses while the expired entry is still stored
C12_Witness ==
  /\ served = 3 /\ viaCache /\ pcB = "dial"
  /\ prev.same /\ prev.code # 0
  /\ \E e \in cache :
        /\ e.key = cacheKey /\ clock > e.exp
        /\ e.exp < prev.at + DefaultExpiration
        /\ prev.at <= e.exp
        /\ clock <= prev.at + DefaultExpiration

\* the header entries the key options select
Selected(options, hdr) ==
  { e \in hdr : IsSet(options.MatchAllHeaders) \/ contains(options.Headers, e[1]) }

\* r1 and r2 agree on every attribute the options select
SameSelected(r1, r2, options) ==
  /\ IsSet(options.IncludeMethod) => r1.Method = r2.Method
  /\ IsSet(options.IncludeRequestURI)
       => removeTrackingParams(r1.URI) = removeTrackingParams(r2.URI)
  /\ IsSet(options.IncludeHeaders)
       => Selected(options, r1.Header) = Selected(options, r2.Header)
  /\ IsSet(options.IncludeHost) => r1.Host = r2.Host
  /\ IsSet(options.IncludeRemoteAddress) => r1.RemoteAddr = r2.RemoteAddr

Derived == keys # << >>

\* C13: two requests with the same values of every attribute the key options
\* select derive the same key, in whatever order the header map is iterated.
C13_KeyDeterministic ==
  (Derived /\ SameSelected(pair[1], pair[2], a.cacheKey)) => keys[1] = keys[2]

\* C13 holds of the options that leave the headers out of the key
C13_WithoutHeaders ==
  ~IsSet(a.cacheKey.IncludeHeaders) => C13_KeyDeterministic

\* r1 and r2 are the same request but for the tracking parameters of their URIs
DifferOnlyInTracking(r1, r2) ==
  /\ [r1 EXCEPT !.URI = PlainURI] = [r2 EXCEPT !.URI = PlainURI]
  /\ r1.URI.path = r2.URI.path /\ r1.URI.frag = r2.URI.frag
  /\ FilterQuery(r1.URI.query, trackingParams) = FilterQuery(r2.URI.query, trackingParams)
  /\ r1.URI.query # r2.URI.query

\* C14: with the URI in the key, two requests that differ only in the presence
\* or value of built-in tracking parameters derive the same key.
C14_TrackingIgnored ==
  (Derived /\ IsSet(a.cacheKey.IncludeRequestURI) /\ DifferOnlyInTracking(pair[1], pair[2]))
    => keys[1] = keys[2]

\* C14 holds of the URIs url.Parse accepts when the key leaves the headers out
C14_ParsedWithoutHeaders ==
  (~IsSet(a.cacheKey.IncludeHeaders) /\ Parses(pair[1].URI)) => C14_TrackingIgnored

\* C15: with host and URI in the key, two requests that differ in host or in
\* normalized URI derive different keys.
C15_KeySeparates ==
  (Derived /\ IsSet(a.cacheKey.IncludeHost) /\ IsSet(a.cacheKey.IncludeRequestURI)
     /\ (pair[1].Host # pair[2].Host
           \/ removeTrackingParams(pair[1].URI) # removeTrackingParams(pair[2].URI)))
    => keys[1] # keys[2]

\* the request in flight was answered from the cache
ServedFromCache == Guarded /\ respErr = Nil /\ resp.kind = "pooled"

\* C16: a request answered from a cached verdict has the raw request URI of the
\* request the verdict was obtained for (the method, selected headers and host
\* are in the key), so an evaluation service that looks at the raw URI would
\* have given it a verdict of the same class.
C16_CachedVerdictSound ==
  ServedFromCache
    => \A e \in written : e.key = cacheKey => e.uri = RequestURI(req.URI)

\* C17: a handler built from a configuration with maxBodySize = 0 enforces the
\* default ceiling of 10 MiB: it rejects no body of up to 10*1024*1024 bytes as
\* too large.
C17_ZeroMeansDefault ==
  (config.MaxBodySize = 0 /\ Guarded /\ req.bodyLen <= DefaultMaxBodySize)
    => /\ reqErr # ErrTooLarge
       /\ rw.Code # StatusRequestEntityTooLarge

\* the request in flight went through GetCachedResponse
LookedUp == viaCache \/ resp.kind = "pooled"

\* C18: the cacheConditionsMethods option a user sets is the eligibility rule
\* of the handler New builds: with the cache enabled, a bodyless request looks
\* the cache up exactly when its method is in the list.
C18_UserOptionsApply ==
  (Guarded /\ IsSet(config.CacheEnabled) /\ config.CacheConditionsMethods # << >>
     /\ req.ContentLength = 0)
    => (LookedUp <=> contains(config.CacheConditionsMethods, req.Method))

\* C19: the request goes to the real service whenever the evaluation service's
\* response code is not greater than 400, and the service's error page is
\* returned only when the code is greater than 400 (taken with the Body Guard
\* passed and the call answered).
C19_ErrorPageAbove400 ==
  (Guarded /\ reqErr = Nil /\ respErr = Nil /\ resp.kind # "none")
    => IF Deref(resp).StatusCode > 400
       THEN nextCalls = 0 /\ rw.Code = Deref(resp).StatusCode
       ELSE nextCalls = 1 /\ BackendAnswered

\* the spellings of the Upgrade value the requests use
WebsocketSpellings == { "websocket", "Websocket" }

\* the request in flight names websocket in its Upgrade header, in any case
CarriesUpgradeAnyCase ==
  \E e \in req.Header :
    e[1] = "Upgrade" /\ \E i \in 1..Len(e[2]) : e[2][i] \in WebsocketSpellings

\* C20: a request whose Upgrade header names websocket in any letter case is
\* handed straight to the backend and the evaluation service is never called.
C20_UpgradeAnyCaseBypasses ==
  CarriesUpgradeAnyCase
    => /\ wafCalls = 0
       /\ Done => (nextCalls = 1 /\ BackendAnswered)

\* C21: a pooled response is in the pool, or in another request's hands, only
\* once the request it was synthesized for has read it; so every request served
\* from the cache acts on the status the cache held for its own key.
C21_ReleasedAfterUse ==
  \A w \in Workers :
    LET x == inflight[w]
    IN /\ (x.pc \in { "join", "relay" } /\ x.obj # 0)
            => /\ x.obj \notin pool.free
               /\ \A v \in Workers \ { w } : inflight[v].obj # x.obj
       /\ (x.pc = "done" /\ x.obj # 0)
            => IF x.want >= RejectFrom
               THEN x.nextCalls = 0 /\ x.rw.Code = x.want /\ x.rw.Body = StatusText(x.want)
               ELSE x.nextCalls = 1

\* the consequence alone: a request served from the cache acts on its own status
C21_OwnStatus ==
  \A w \in Workers :
    LET x == inflight[w]
    IN (x.pc = "done" /\ x.obj # 0)
         => IF x.want >= RejectFrom
            THEN x.nextCalls = 0 /\ x.rw.Code = x.want /\ x.rw.Body = StatusText(x.want)
            ELSE x.nextCalls = 1

\* C22: the cache changes only in the step in which the request's own call to
\* the evaluation service returns an answer, and then by one set of that answer's
\* status at the request's key; the request is eligible, not an upgrade, was not
\* served from the cache, and its verdict task is over after that step: a failed
\* call, a hit, an ineligible request and an upgrade leave the cache as it was.
C22_CacheFrame ==
  [][ cache' # cache
        => /\ served' = served /\ req' = req
           /\ pcB = "await" /\ pcB' = "done"
           /\ wafCalls = 1 /\ wafCalls' = 1
           /\ respErr' = Nil /\ resp'.kind = "waf"
           /\ a.cacheEnabled /\ Check(a.cacheConditions, req) /\ ~isWebsocket(req)
           /\ CacheGet(cache, cacheKey, clock) = {}
           /\ \E order \in Orderings(req.Header) :
                /\ cacheKey = generateCacheKey(req, a.cacheKey, order)
                /\ cache' = SetDefault(cache, cacheKey, resp'.StatusCode % CodeModulus, clock) ]_vars

\* a request has stored the status of its own evaluation call
C22_Witness ==
  /\ Done /\ viaCache /\ Answered
  /\ \E e \in cache : e.key = cacheKey /\ e.code = resp.StatusCode % CodeModulus

\* C23: a served request was written to at most once: by the Body Guard's error
\* path, or by the relay of the verdict, or by the backend; when a task signalled
\* a failure the orchestrator wrote nothing and did not call the backend.
C23_NoDoubleWrite ==
  Guarded =>
    IF reqErr # Nil \/ respErr # Nil
    THEN /\ nextCalls = 0
         /\ rw = IF reqErr = Nil THEN NothingWritten
                 ELSE HttpError(NothingWritten, "",
                                IF reqErr = ErrTooLarge THEN StatusRequestEntityTooLarge
                                                        ELSE StatusBadGateway)
    ELSE IF Deref(resp).StatusCode >= RejectFrom
    THEN nextCalls = 0 /\ rw = forwardResponse(Deref(resp), NothingWritten)
    ELSE nextCalls = 1 /\ rw = NextServeHTTP(NothingWritten)

\* the Body Guard failed and wrote its error while the verdict task got an answer
C23_Witness == Guarded /\ reqErr # Nil /\ Answered /\ rw # NothingWritten

\* C24: the orchestrator leaves wg.Wait only when both tasks are over; until
\* then the backend is not called, no verdict is relayed and the response of the
\* evaluation service is not closed (the client is written to by the Body Guard
\* alone); and reqErr, resp and respErr no longer change once it has left.
C24_Barrier ==
  [][ /\ (pc = "wait" /\ pc' # "wait")
           => /\ pcA = "done" /\ pcB = "done"
              /\ UNCHANGED << pcA, pcB, reqErr, resp, respErr >>
      /\ (pc = "wait" /\ pc' = "wait")
           => /\ nextCalls' = 0 /\ ~respClosed'
              /\ rw' # rw => (pcA = "finish" /\ pcA' = "done")
      /\ (pc = "done" /\ pc' = "done" /\ served' = served)
           => UNCHANGED << pcA, pcB, reqErr, resp, respErr, rw >> ]_vars

\* the verdict task is over with an answer and the orchestrator still waits for
\* the Body Guard
C24_Witness ==
  pc = "wait" /\ pcB = "done" /\ pcA = "copy" /\ Answered /\ nextCalls = 0 /\ rw = NothingWritten

\* C25: Check is true exactly when the list of methods is empty or holds the
\* method of the request, letter for letter, and NoBody is unset or equals
\* "the declared content length is 0"; an unknown length (-1) counts as a body.
C25_CheckTruthTable ==
  checked # << >> =>
    LET c == a.cacheConditions
        methodOk == c.Methods = << >> \/ \E i \in DOMAIN c.Methods : c.Methods[i] = req.Method
        declaresNoBody == req.ContentLength = 0
        bodyOk == c.NoBody = << >> \/ c.NoBody[1] = declaresNoBody
    IN /\ checked[1] = (methodOk /\ bodyOk)
       /\ (req.ContentLength = -1 /\ c.NoBody = boolPtr(TRUE)) => ~checked[1]
       /\ (req.ContentLength = -1 /\ c.NoBody = boolPtr(FALSE) /\ methodOk) => checked[1]

\* a request of unknown length and of a listed method is refused by a rule that
\* wants no body
C25_Witness ==
  /\ checked = << FALSE >>
  /\ req.ContentLength = -1
  /\ a.cacheConditions = [Methods |-> <<"GET", "POST">>, NoBody |-> boolPtr(TRUE)]
  /\ req.Method = "POST"

C27_NothingRetried ==
  /\ wafCalls <= 1
  /\ (Done /\ CarriesUpgradeWebsocket) => wafCalls = 0
  /\ resp.kind = "pooled" => wafCalls = 0
  /\ respErr # Nil => (wafCalls = 1 /\ resp = NoResponse)
  /\ (Done /\ respErr # Nil)
       => (nextCalls = 0 /\ (rw = NothingWritten \/ reqErr # Nil))

\* the one call of a request timed out and the request is over
C27_Witness ==
  Guarded /\ respErr = ErrTimeout /\ wafCalls = 1 /\ nextCalls = 0 /\ rw = NothingWritten

\* the terminal states of a request
BypassedUpgrade == Done /\ CarriesUpgradeWebsocket /\ nextCalls = 1 /\ wafCalls = 0

Failed == Guarded /\ (reqErr # Nil \/ respErr # Nil) /\ nextCalls = 0

Rejected ==
  /\ Guarded /\ reqErr = Nil /\ respErr = Nil
  /\ nextCalls = 0 /\ rw.Code >= RejectFrom

Allowed ==
  /\ Guarded /\ reqErr = Nil /\ respErr = Nil
  /\ nextCalls = 1 /\ BackendAnswered

TerminalStates ==
  { s \in { "BypassedUpgrade", "Failed", "Rejected", "Allowed" } :
      \/ s = "BypassedUpgrade" /\ BypassedUpgrade
      \/ s = "Failed" /\ Failed
      \/ s = "Rejected" /\ Rejected
      \/ s = "Allowed" /\ Allowed }

\* C28: under fair scheduling a request waiting at the join is eventually over,
\* and a request that is over is in exactly one terminal state.
C28_Terminates ==
  /\ (pc = "wait") ~> Done
  /\ [](Done => Cardinality(TerminalStates) = 1)

\* a request is over as Failed after both tasks ran into each other
C28_Witness == Failed /\ reqErr = ErrReadAfterClose /\ served = 2

\* C29: when ServeHTTP has returned, the body of the response the evaluation
\* service gave to this request is closed, also when the Body Guard failed.
C29_ResponseBodyClosed ==
  (Done /\ resp.kind = "waf") => respClosed

\* the outcome of the finished request is the one its verdict task's result
\* (a hit, an answer or a failure of the evaluation service) determines: the
\* tasks did not disturb each other
OutcomeOfVerdictAlone ==
  /\ reqErr = Nil
  /\ respErr \in { Nil, ErrDial, ErrTimeout }
  /\ wafCalls = IF resp.kind = "pooled" THEN 0 ELSE 1
  /\ IF respErr # Nil
     THEN nextCalls = 0 /\ rw = NothingWritten
     ELSE IF Deref(resp).StatusCode >= RejectFrom
     THEN nextCalls = 0 /\ rw = forwardResponse(Deref(resp), NothingWritten)
     ELSE nextCalls = 1 /\ rw = NextServeHTTP(NothingWritten)
  /\ (viaCache /\ Answered)
       => CacheGet(cache, cacheKey, clock)
            = { [key |-> cacheKey, code |-> resp.StatusCode % CodeModulus,
                 exp |-> clock + DefaultExpiration] }

\* C30: a request whose body is empty ends, in every interleaving of the two
\* tasks, with the client response, the backend decision, the number of
\* evaluation calls and the cache that the request, the cache it found and the
\* behaviour of the evaluation service determine.
C30_EmptyBodyScheduleIndependent ==
  (Guarded /\ req.bodyLen = 0) => OutcomeOfVerdictAlone

\* the same for the requests that declare a content length of 0 (http.NoBody)
C30_DeclaredEmpty ==
  (Guarded /\ req.ContentLength = 0) => OutcomeOfVerdictAlone

====
